---- MODULE Spec2Model ----
(***************************************************************************)
(* Model of the virtual joystick (src/components/game/Joystick.tsx), the   *)
(* character sprite (src/components/game/Character.tsx) and the game       *)
(* screen that wires them together (src/app/index.tsx).                    *)
(*                                                                         *)
(* Numbers.  The program computes in IEEE-754 doubles.  The model computes *)
(* in rationals [n |-> numerator, d |-> denominator], reduced, with d > 0; *)
(* 0/0 stands for NaN and +-1/0 for +-Infinity, which is what a double     *)
(* division by zero yields.  +, -, * and / are exact in the model.         *)
(* Math.sqrt is only compared (distance <= maxDistance), which the model   *)
(* does on the squares.  Math.cos(Math.atan2(dy, dx)) and                  *)
(* Math.sin(Math.atan2(dy, dx)) are approximations of dx / length and      *)
(* dy / length: the model lets each be either neighbour of the real value  *)
(* on a grid of TrigSteps steps per unit, and the real value itself when   *)
(* it lies on the grid (as 0 and +-1 do on every grid).                    *)
(***************************************************************************)
EXTENDS Integers, Sequences, FiniteSets, TLC

VARIABLES
    size,        \* Joystick prop: diameter of the base
    stickSize,   \* Joystick prop: diameter of the stick
    onMove,      \* Joystick prop: TRUE iff a listener was passed
    width,       \* Dimensions.get("window").width
    height,      \* Dimensions.get("window").height
    characterX,  \* shared value: Position.x
    characterY,  \* shared value: Position.y
    joystickX,   \* shared value: InputVector.x
    joystickY,   \* shared value: InputVector.y
    translateX,  \* shared value: stick offset x
    translateY,  \* shared value: stick offset y
    springing,   \* TRUE while the withSpring(0) animation of the stick runs
    active,      \* TRUE while the pan gesture is active (Dragging)
    event,       \* translation <<dx, dy>> of the active gesture's last update
                 \* event, <<>> when the gesture has delivered none
    rnQueue      \* calls of onMove scheduled on the RN thread, oldest first

vars == <<size, stickSize, onMove, width, height, characterX, characterY,
          joystickX, joystickY, translateX, translateY, springing, active,
          event, rnQueue>>

config == <<size, stickSize, onMove, width, height>>

(***************************************************************************)
(* Bounds of the model.                                                    *)
(***************************************************************************)
\* Most onMove calls that may be scheduled and not yet delivered.
MaxPending == 2

\* Steps per unit of the grid on which the results of Math.cos and Math.sin
\* are rounded.
TrigSteps == 10

\* Displacements (dx, dy) a drag update is drawn from, in pixels: inside the
\* circle and beyond it along the axes.
Displacements ==
    {<<0, 0>>, <<27, 0>>, <<27, 27>>, <<0, -60>>, <<-100, 0>>, <<100, 0>>}

\* A wider choice, for the joystick taken alone: also on the circle and
\* beyond it off the axes.
WideDisplacements ==
    Displacements \cup
    {<<30, 0>>, <<10, -20>>, <<27, 36>>, <<60, 80>>, <<-60, 80>>, <<-120, -117>>}

\* Props and window <<size, stickSize, width, height>> within the documented
\* interface (0 < stickSize < size, a window that holds the character); the
\* first joystick is the game screen's own.
ValidSetups == {<<150, 60, 60, 56>>, <<168, 60, 57, 54>>}

\* Props and window outside it: maxDistance = 0, diameters that are not
\* positive, maxDistance < 0, a window narrower than the character.
InvalidSetups ==
    {<<60, 60, 56, 54>>, <<0, 0, 56, 54>>, <<60, 150, 50, 50>>, <<150, 60, 40, 54>>}

(***************************************************************************)
(* Rational arithmetic standing for the doubles.                           *)
(***************************************************************************)
Abs(i) == IF i < 0 THEN -i ELSE i

Sign(i) == IF i < 0 THEN -1 ELSE IF i > 0 THEN 1 ELSE 0

RECURSIVE GCD(_, _)
GCD(a, b) == IF b = 0 THEN a ELSE GCD(b, a % b)

\* The reduced fraction n/d; 0/0 is NaN, +-1/0 is +-Infinity.
Frac(n, d) ==
    IF d = 0 THEN [n |-> Sign(n), d |-> 0]
    ELSE LET g == GCD(Abs(n), Abs(d))
         IN  [n |-> Sign(d) * (n \div g), d |-> Abs(d) \div g]

Num(i) == [n |-> i, d |-> 1]

Zero == Num(0)

One == Num(1)

NaN == [n |-> 0, d |-> 0]

IsNaN(a) == a.d = 0 /\ a.n = 0

IsFinite(a) == a.d # 0

\* a + b
RAdd(a, b) ==
    IF a.d = 0 /\ b.d = 0
    THEN (IF a.n = b.n THEN a ELSE NaN)
    ELSE Frac(a.n * b.d + b.n * a.d, a.d * b.d)

\* a * b
RMul(a, b) == Frac(a.n * b.n, a.d * b.d)

\* a / b
RDiv(a, b) == Frac(a.n * b.d, a.d * b.n)

RNeg(a) == [n |-> -a.n, d |-> a.d]

\* a < b; FALSE when either is NaN.
RLess(a, b) ==
    /\ ~IsNaN(a)
    /\ ~IsNaN(b)
    /\ IF a.d = 0 \/ b.d = 0
       THEN (IF a.d = 0 /\ b.d = 0 THEN a.n < b.n
             ELSE IF a.d = 0 THEN a.n < 0 ELSE b.n > 0)
       ELSE a.n * b.d < b.n * a.d

\* a <= b; FALSE when either is NaN.
RLeq(a, b) == ~IsNaN(a) /\ ~IsNaN(b) /\ ~RLess(b, a)

\* x !== 0 : TRUE for NaN.
NotZero(a) == a # Zero

\* Math.min and Math.max: NaN if either argument is NaN.
MathMin(a, b) == IF IsNaN(a) \/ IsNaN(b) THEN NaN ELSE IF RLess(b, a) THEN b ELSE a

MathMax(a, b) == IF IsNaN(a) \/ IsNaN(b) THEN NaN ELSE IF RLess(a, b) THEN b ELSE a

\* dx ** 2 + dy ** 2
SquaredLength(dx, dy) == dx * dx + dy * dy

\* The largest k in 0..TrigSteps with k / TrigSteps <= a / sqrt(d2), for
\* 0 <= a <= sqrt(d2).
TrigFloor(a, d2) ==
    CHOOSE k \in 0..TrigSteps :
        /\ k * k * d2 <= a * a * TrigSteps * TrigSteps
        /\ (k + 1) * (k + 1) * d2 > a * a * TrigSteps * TrigSteps

\* The values the approximation of a / sqrt(d2) may take.
Approximations(a, d2) ==
    LET k == TrigFloor(Abs(a), d2)
        exact == k * k * d2 = a * a * TrigSteps * TrigSteps
    IN  {Frac(Sign(a) * j, TrigSteps) : j \in IF exact THEN {k} ELSE {k, k + 1}}

\* The values of Math.cos(Math.atan2(dy, dx)); atan2(0, 0) is 0.
CosAtan2(dy, dx) ==
    IF dx = 0 /\ dy = 0 THEN {One} ELSE Approximations(dx, SquaredLength(dx, dy))

\* The values of Math.sin(Math.atan2(dy, dx)); atan2(0, 0) is 0.
SinAtan2(dy, dx) ==
    IF dx = 0 /\ dy = 0 THEN {Zero} ELSE Approximations(dy, SquaredLength(dx, dy))

(***************************************************************************)
(* Joystick (src/components/game/Joystick.tsx).                            *)
(***************************************************************************)
\* const maxDistance = (size - stickSize) / 2
maxDistance == Frac(size - stickSize, 2)

\* distance <= maxDistance, for distance = Math.sqrt(dx ** 2 + dy ** 2):
\* the square root is monotone, so the squares are compared.
WithinCircle(dx, dy) ==
    /\ maxDistance.n >= 0
    /\ SquaredLength(dx, dy) * maxDistance.d * maxDistance.d
         <= maxDistance.n * maxDistance.n

\* Variant: each axis clamped to [-maxDistance, maxDistance] on its own.
StickOffset_PerAxis(dx, dy, c, s) ==
    <<MathMax(RNeg(maxDistance), MathMin(maxDistance, Num(dx))),
      MathMax(RNeg(maxDistance), MathMin(maxDistance, Num(dy)))>>

\* Variant: the displacement is never constrained to the circle.
StickOffset_Unclamped(dx, dy, c, s) == <<Num(dx), Num(dy)>>

\* The stick offset onUpdate stores for the displacement (dx, dy), where
\* c = Math.cos(angle) and s = Math.sin(angle).
StickOffset(dx, dy, c, s) ==
    IF WithinCircle(dx, dy)
    THEN <<Num(dx), Num(dy)>>
    ELSE <<RMul(c, maxDistance), RMul(s, maxDistance)>>

\* Variant: divides by the radius of the base instead of the stick's travel.
Normalized_ByBaseRadius(x, y) == <<RDiv(x, Frac(size, 2)), RDiv(y, Frac(size, 2))>>

\* normalizedX = x / maxDistance, normalizedY = y / maxDistance
Normalized(x, y) == <<RDiv(x, maxDistance), RDiv(y, maxDistance)>>

\* reportMove(x, y): the queue of scheduled listener calls after it.
reportMove(x, y) ==
    IF onMove THEN Append(rnQueue, Normalized(x, y)) ELSE rnQueue

\* Room for one more scheduled call (the bound of the model).
CanSchedule == onMove => Len(rnQueue) < MaxPending

\* The gesture recogniser activates the pan gesture; no handler is registered.
DragStart ==
    /\ ~active
    /\ active' = TRUE
    /\ event' = <<>>
    /\ UNCHANGED <<config, characterX, characterY, joystickX, joystickY,
                   translateX, translateY, springing, rnQueue>>

\* Variant: the first update of a drag starts from the offset the stick
\* still has from the previous drag.
onUpdate_CarriesOver(dx, dy) ==
    /\ active
    /\ CanSchedule
    /\ \E c \in CosAtan2(dy, dx), s \in SinAtan2(dy, dx) :
          LET startX == IF event = <<>> THEN translateX ELSE Zero
              startY == IF event = <<>> THEN translateY ELSE Zero
              x == RAdd(startX, StickOffset(dx, dy, c, s)[1])
              y == RAdd(startY, StickOffset(dx, dy, c, s)[2])
          IN  /\ translateX' = x
              /\ translateY' = y
              /\ rnQueue' = reportMove(x, y)
    /\ event' = <<dx, dy>>
    /\ springing' = FALSE
    /\ UNCHANGED <<config, characterX, characterY, joystickX, joystickY, active>>

\* panGesture.onUpdate(event), event.translationX = dx, event.translationY = dy
onUpdate(dx, dy) ==
    /\ active
    /\ CanSchedule
    /\ \E c \in CosAtan2(dy, dx), s \in SinAtan2(dy, dx) :
          /\ translateX' = StickOffset(dx, dy, c, s)[1]
          /\ translateY' = StickOffset(dx, dy, c, s)[2]
          /\ rnQueue' = reportMove(StickOffset(dx, dy, c, s)[1],
                                   StickOffset(dx, dy, c, s)[2])
    /\ event' = <<dx, dy>>
    /\ springing' = FALSE
    /\ UNCHANGED <<config, characterX, characterY, joystickX, joystickY, active>>

\* Variant: the release reports the offset the stick still has.
onEnd_ReportsOffset ==
    /\ active
    /\ CanSchedule
    /\ active' = FALSE
    /\ event' = <<>>
    /\ springing' = TRUE
    /\ rnQueue' = reportMove(translateX, translateY)
    /\ UNCHANGED <<config, characterX, characterY, joystickX, joystickY,
                   translateX, translateY>>

\* Variant: the release reports nothing.
onEnd_NoReport ==
    /\ active
    /\ CanSchedule
    /\ active' = FALSE
    /\ event' = <<>>
    /\ springing' = TRUE
    /\ UNCHANGED <<config, characterX, characterY, joystickX, joystickY,
                   translateX, translateY, rnQueue>>

\* panGesture.onEnd()
onEnd ==
    /\ active
    /\ CanSchedule
    /\ active' = FALSE
    /\ event' = <<>>
    /\ springing' = TRUE
    /\ rnQueue' = reportMove(Zero, Zero)
    /\ UNCHANGED <<config, characterX, characterY, joystickX, joystickY,
                   translateX, translateY>>

\* The spring started by onEnd brings the stick offset to its target 0.
SpringSettle ==
    /\ springing
    /\ translateX' = Zero
    /\ translateY' = Zero
    /\ springing' = FALSE
    /\ UNCHANGED <<config, characterX, characterY, joystickX, joystickY,
                   active, event, rnQueue>>

(***************************************************************************)
(* Game screen (src/app/index.tsx).                                        *)
(***************************************************************************)
moveSpeed == 5

characterSize == 50

minX == Frac(characterSize, 2)

\* Variant: the centre, not the extent, is kept on the screen.
maxX_Centre == Num(width)

maxX == RAdd(Num(width), RNeg(Frac(characterSize, 2)))

\* Variant: the lower bound of y is the character's size, not half of it.
minY_FullSize == Num(characterSize)

minY == Frac(characterSize, 2)

maxY == RAdd(Num(height), RNeg(Frac(characterSize, 2)))

\* Variant: the vectors of the listener calls still pending are added to the
\* stored one, so every drag update since the last tick counts.
newX_Accumulated ==
    LET sum[i \in 0..Len(rnQueue)] ==
            IF i = 0 THEN joystickX ELSE RAdd(sum[i - 1], rnQueue[i][1])
    IN  RAdd(characterX, RMul(sum[Len(rnQueue)], Num(moveSpeed)))

\* newX = characterX.value + joystickX.value * moveSpeed
newX == RAdd(characterX, RMul(joystickX, Num(moveSpeed)))

newY == RAdd(characterY, RMul(joystickY, Num(moveSpeed)))

\* Variant: the frame callback has no idle short-circuit.
Moving_Always == TRUE

\* joystickX.value !== 0 || joystickY.value !== 0
Moving == NotZero(joystickX) \/ NotZero(joystickY)

\* Variant: the new x is stored without clamping.
TickX_Unclamped == IF Moving THEN newX ELSE characterX

\* The position after one run of the frame callback.
TickX == IF Moving THEN MathMax(minX, MathMin(maxX, newX)) ELSE characterX

TickY == IF Moving THEN MathMax(minY, MathMin(maxY, newY)) ELSE characterY

\* Variant: the frame callback uses up the stored vector, so the character
\* moves once per drag event.
FrameCallback_ConsumesInput ==
    /\ characterX' = TickX
    /\ characterY' = TickY
    /\ joystickX' = Zero
    /\ joystickY' = Zero
    /\ UNCHANGED <<config, translateX, translateY, springing, active, event,
                   rnQueue>>

\* useFrameCallback(() => { ... }): one display refresh.
FrameCallback ==
    /\ characterX' = TickX
    /\ characterY' = TickY
    /\ UNCHANGED <<config, joystickX, joystickY, translateX, translateY,
                   springing, active, event, rnQueue>>

\* Variant: the listener also moves the character by the reported vector.
handleJoystickMove_Moves ==
    /\ rnQueue # <<>>
    /\ joystickX' = Head(rnQueue)[1]
    /\ joystickY' = Head(rnQueue)[2]
    /\ characterX' = RAdd(characterX, RMul(Head(rnQueue)[1], Num(moveSpeed)))
    /\ characterY' = characterY
    /\ rnQueue' = Tail(rnQueue)
    /\ UNCHANGED <<config, translateX, translateY, springing, active, event>>

\* Variant: the newest scheduled call is delivered first.
handleJoystickMove_NewestFirst ==
    /\ rnQueue # <<>>
    /\ joystickX' = rnQueue[Len(rnQueue)][1]
    /\ joystickY' = rnQueue[Len(rnQueue)][2]
    /\ rnQueue' = SubSeq(rnQueue, 1, Len(rnQueue) - 1)
    /\ UNCHANGED <<config, characterX, characterY, translateX, translateY,
                   springing, active, event>>

\* handleJoystickMove(x, y), run on the RN thread for the oldest scheduled call.
handleJoystickMove ==
    /\ rnQueue # <<>>
    /\ joystickX' = Head(rnQueue)[1]
    /\ joystickY' = Head(rnQueue)[2]
    /\ rnQueue' = Tail(rnQueue)
    /\ UNCHANGED <<config, characterX, characterY, translateX, translateY,
                   springing, active, event>>

(***************************************************************************)
(* Character (src/components/game/Character.tsx), as the game screen       *)
(* renders it: <Character x={characterX} y={characterY} size={50} />.      *)
(***************************************************************************)
spriteSize == 50

\* translateX: x.value - size / 2 and translateY: y.value - size / 2
SpriteLeft == RAdd(characterX, RNeg(Frac(spriteSize, 2)))

SpriteTop == RAdd(characterY, RNeg(Frac(spriteSize, 2)))

\* width: size, height: size
SpriteRight == RAdd(SpriteLeft, Num(spriteSize))

SpriteBottom == RAdd(SpriteTop, Num(spriteSize))

(***************************************************************************)
(* Specifications.                                                         *)
(***************************************************************************)
\* The state after GameScreen and Joystick are constructed with the given
\* props and window.
InitWith(setups) ==
    /\ \E s \in setups :
          size = s[1] /\ stickSize = s[2] /\ width = s[3] /\ height = s[4]
    /\ onMove \in BOOLEAN
    /\ characterX = Frac(width, 2)
    /\ characterY = Frac(height, 2)
    /\ joystickX = Zero
    /\ joystickY = Zero
    /\ translateX = Zero
    /\ translateY = Zero
    /\ springing = FALSE
    /\ active = FALSE
    /\ event = <<>>
    /\ rnQueue = <<>>

Init == InitWith(ValidSetups)

InitAnyConfig == InitWith(ValidSetups \cup InvalidSetups)

\* The joystick's gesture handlers and the delivery of its listener calls.
JoystickNext(displacements) ==
    \/ DragStart
    \/ \E d \in displacements : onUpdate(d[1], d[2])
    \/ onEnd
    \/ SpringSettle
    \/ handleJoystickMove

Next ==
    \/ JoystickNext(Displacements)
    \/ FrameCallback

NextJoystick == JoystickNext(WideDisplacements)

\* Construction within the documented interface.
Spec == Init /\ [][Next]_vars

\* Construction with any props and window.
SpecAnyConfig == InitAnyConfig /\ [][Next]_vars

\* The joystick alone (no display refresh), over the wider displacements.
SpecJoystick == Init /\ [][NextJoystick]_vars

\* The frame callback alone, as the function tick(inputVector, position):
\* on a 1000 x 1000 window, from positions the character can stand at, with
\* input vectors of components in [-1, 1] (the joystick itself never stores
\* <<1, 1>>; the tick accepts it).
TickPositions == {500, 973}

TickInputs ==
    {<<Zero, Zero>>, <<One, Zero>>, <<One, One>>, <<Zero, RNeg(One)>>,
     <<Frac(-3, 5), Frac(4, 5)>>, <<Frac(2, 3), Zero>>}

InitTick ==
    /\ size = 150 /\ stickSize = 60 /\ onMove = TRUE
    /\ width = 1000 /\ height = 1000
    /\ \E x \in TickPositions, y \in TickPositions :
          characterX = Num(x) /\ characterY = Num(y)
    /\ \E v \in TickInputs : joystickX = v[1] /\ joystickY = v[2]
    /\ translateX = Zero
    /\ translateY = Zero
    /\ springing = FALSE
    /\ active = FALSE
    /\ event = <<>>
    /\ rnQueue = <<>>

NextTick == FrameCallback

SpecTick == InitTick /\ [][NextTick]_vars

\* The frame callback alone with the stick held steady: the callback is
\* registered once and runs on every display refresh.
SpecTickFair == SpecTick /\ WF_vars(FrameCallback)

\* The whole program with the RN thread at work: every call scheduled on it
\* is eventually run.
SpecFair == Spec /\ WF_vars(handleJoystickMove)

(***************************************************************************)
(* Properties.                                                             *)
(***************************************************************************)
\* The vector most recently reported to the listener: the newest scheduled
\* call, or, once every call is delivered, the vector the listener stored.
LastReported ==
    IF rnQueue = <<>> THEN <<joystickX, joystickY>> ELSE rnQueue[Len(rnQueue)]

InputIsZero == joystickX = Zero /\ joystickY = Zero

\* v clamped to [lo, hi]
Clamp(v, lo, hi) == IF RLess(v, lo) THEN lo ELSE IF RLess(hi, v) THEN hi ELSE v

\* The radius of the stick's travel, (baseDiameter - stickDiameter) / 2.
TravelRadius == Frac(size - stickSize, 2)

\* sqrt(dx^2 + dy^2) <= TravelRadius, for a radius that is not negative.
InsideTravel(d) ==
    RLeq(Num(d[1] * d[1] + d[2] * d[2]), RMul(TravelRadius, TravelRadius))

\* C1 (Spec).  Boundary law: in every reachable state the character's full
\* extent lies on the surface [0, width] x [0, height], that is, Position.x
\* is within [0 + halfExtent, width - halfExtent] and Position.y within
\* [0 + halfExtent, height - halfExtent], whatever ticks, drag updates and
\* releases came before.
C1_BoundaryLaw ==
    /\ RLeq(Zero, SpriteLeft)
    /\ RLeq(SpriteRight, Num(width))
    /\ RLeq(Zero, SpriteTop)
    /\ RLeq(SpriteBottom, Num(height))
    /\ RLeq(Frac(spriteSize, 2), characterX)
    /\ RLeq(characterX, RAdd(Num(width), RNeg(Frac(spriteSize, 2))))
    /\ RLeq(Frac(spriteSize, 2), characterY)
    /\ RLeq(characterY, RAdd(Num(height), RNeg(Frac(spriteSize, 2))))

\* The character stands at the right bound while the input still pushes right.
C1_Witness ==
    /\ SpriteRight = Num(width)
    /\ RLess(Zero, joystickX)
    /\ characterY # Frac(height, 2)

\* C2 (SpecAnyConfig).  Idle tick: no step taken while InputVector is exactly
\* (0,0) changes Position, whatever the position is.
C2_IdleTick ==
    [][InputIsZero => (characterX' = characterX /\ characterY' = characterY)]_vars

\* The character has moved and the input is back to zero with nothing pending.
C2_Witness ==
    /\ InputIsZero
    /\ rnQueue = <<>>
    /\ ~active
    /\ characterX # Frac(width, 2)
    /\ characterY # Frac(height, 2)

\* C3 (SpecJoystick).  Every release (the step that takes the gesture from
\* Dragging to Idle) schedules exactly the vector (0,0) for the listener,
\* whatever the stick offset and the earlier reports were.
C3_EndReportsZero ==
    [][(active /\ ~active' /\ onMove) =>
         rnQueue' = Append(rnQueue, <<Zero, Zero>>)]_vars

\* A release has reported (0,0) while the stick is still displaced.
C3_Witness ==
    /\ onMove
    /\ ~active
    /\ springing
    /\ translateX # Zero
    /\ translateY # Zero
    /\ rnQueue # <<>>
    /\ rnQueue[Len(rnQueue)] = <<Zero, Zero>>

\* C4 (SpecJoystick).  After a drag update (dx, dy) with
\* sqrt(dx^2 + dy^2) <= maxDistance the stick offset is (dx, dy) and the
\* vector reported to the listener is (dx / maxDistance, dy / maxDistance);
\* base 150, stick 60, drag (30,0) reports (30/45, 0).
C4_InsideCircle ==
    /\ (active /\ event # <<>> /\ InsideTravel(event)) =>
          /\ translateX = Num(event[1])
          /\ translateY = Num(event[2])
          /\ onMove =>
                LastReported = <<RDiv(Num(event[1]), TravelRadius),
                                 RDiv(Num(event[2]), TravelRadius)>>
    /\ (active /\ event = <<30, 0>> /\ size = 150 /\ stickSize = 60 /\ onMove) =>
          LastReported = <<Frac(30, 45), Zero>>

\* An update inside the circle and off the axes has been reported.
C4_Witness ==
    /\ active
    /\ onMove
    /\ event = <<10, -20>>
    /\ LastReported = <<Frac(10, 45), Frac(-20, 45)>>

\* One step of the grid on which cos and sin are rounded.
Tolerance == Frac(1, TrigSteps)

RAbs(a) == IF RLess(a, Zero) THEN RNeg(a) ELSE a

RSquare(a) == RMul(a, a)

\* C5 as claimed (SpecJoystick).  After a drag update (dx, dy) with
\* sqrt(dx^2 + dy^2) > maxDistance the reported vector has magnitude exactly
\* 1 and is a positive multiple of (dx, dy).
C5_BeyondCircleExact ==
    (active /\ event # <<>> /\ ~InsideTravel(event) /\ onMove) =>
        LET rx == LastReported[1]
            ry == LastReported[2]
            dx == Num(event[1])
            dy == Num(event[2])
        IN  /\ RAdd(RSquare(rx), RSquare(ry)) = One
            /\ RMul(rx, dy) = RMul(ry, dx)
            /\ RLess(Zero, RAdd(RMul(rx, dx), RMul(ry, dy)))

\* C5 as amended (SpecJoystick).  After such an update the displacement is
\* projected onto the circle, not clamped per axis: each component of the
\* reported vector is within one rounding step of the unit vector along
\* (dx, dy), so its magnitude is 1 and its direction that of (dx, dy) up to
\* rounding, and the stick offset is the reported vector times maxDistance;
\* base 150, stick 60, drag (100,0) reports exactly (1,0).
C5_BeyondCircleRounded ==
    /\ (active /\ event # <<>> /\ ~InsideTravel(event) /\ onMove) =>
          LET rx == LastReported[1]
              ry == LastReported[2]
              dx == Num(event[1])
              dy == Num(event[2])
              mag2 == RAdd(RSquare(rx), RSquare(ry))
              two == RMul(Num(2), Tolerance)
          IN  /\ RLeq(RSquare(RAdd(One, RNeg(two))), mag2)
              /\ RLeq(mag2, RSquare(RAdd(One, two)))
              /\ RLess(Zero, RAdd(RMul(rx, dx), RMul(ry, dy)))
              /\ RLeq(RAbs(RAdd(RMul(rx, dy), RNeg(RMul(ry, dx)))),
                      RMul(Tolerance, RAdd(RAbs(dx), RAbs(dy))))
              /\ translateX = RMul(rx, TravelRadius)
              /\ translateY = RMul(ry, TravelRadius)
    /\ (active /\ event = <<100, 0>> /\ size = 150 /\ stickSize = 60 /\ onMove) =>
          LastReported = <<One, Zero>>

\* An update beyond the circle and off the axes has been reported, with both
\* components rounded away from zero.
C5_Witness ==
    /\ active
    /\ onMove
    /\ event = <<-120, -117>>
    /\ LastReported = <<Frac(-8, 10), Frac(-7, 10)>>

\* C6 as claimed (SpecJoystick).  With 0 < stickSize < size, in every
\* reachable state each component of InputVector is in [-1, 1] and
\* x^2 + y^2 <= 1.
C6_InputRangeExact ==
    /\ RLeq(RNeg(One), joystickX)
    /\ RLeq(joystickX, One)
    /\ RLeq(RNeg(One), joystickY)
    /\ RLeq(joystickY, One)
    /\ RLeq(RAdd(RSquare(joystickX), RSquare(joystickY)), One)

\* C6 as amended (SpecJoystick).  With 0 < stickSize < size, in every
\* reachable state each component of InputVector is in [-1, 1], and the
\* magnitude is at most 1 up to the rounding of cos and sin.
C6_InputRangeRounded ==
    /\ RLeq(RNeg(One), joystickX)
    /\ RLeq(joystickX, One)
    /\ RLeq(RNeg(One), joystickY)
    /\ RLeq(joystickY, One)
    /\ RLeq(RAdd(RSquare(joystickX), RSquare(joystickY)),
            RSquare(RAdd(One, RMul(Num(2), Tolerance))))

\* The listener has stored the vector of a drag beyond the circle, off the
\* axes.
C6_Witness ==
    /\ 0 < stickSize
    /\ stickSize < size
    /\ joystickX = Frac(3, 5)
    /\ joystickY = Frac(4, 5)
    /\ event = <<60, 80>>

\* C7 as claimed (Spec).  The listener runs before onDragEnd returns: whenever
\* the gesture is not active, InputVector is (0,0).
C7_SynchronousListener == ~active => InputIsZero

\* C7 as amended (Spec).  The listener call is scheduled, not run, by the
\* release; once the gesture is not active and no scheduled call is pending,
\* InputVector is (0,0) and a tick leaves Position as it is.
C7_ZeroOnceDelivered ==
    (~active /\ rnQueue = <<>>) =>
        /\ InputIsZero
        /\ TickX = characterX
        /\ TickY = characterY

\* After a drag that moved the character, released and fully delivered.
C7_Witness ==
    /\ ~active
    /\ rnQueue = <<>>
    /\ springing
    /\ translateX # Zero
    /\ characterX # Frac(width, 2)

\* C8 (Spec).  Writer separation: a step that changes Position changes
\* neither InputVector nor the stick offset nor anything else of the
\* joystick; so the drag events and the listener, which do change those,
\* never change Position.
C8_WriterSeparation ==
    [][(characterX' # characterX \/ characterY' # characterY) =>
         UNCHANGED <<joystickX, joystickY, translateX, translateY, springing,
                     active, event, rnQueue>>]_vars

\* The tick has moved the character while the joystick is displaced and a
\* report is still pending.
C8_Witness ==
    /\ characterX # Frac(width, 2)
    /\ joystickX # Zero
    /\ translateX # Zero
    /\ active
    /\ rnQueue # <<>>

\* C9 as claimed (SpecAnyConfig).  Misconfiguration is rejected at
\* construction, so InputVector and Position never hold NaN or Infinity.
C9_NeverNaN ==
    /\ IsFinite(joystickX)
    /\ IsFinite(joystickY)
    /\ IsFinite(characterX)
    /\ IsFinite(characterY)

\* C10 (SpecTick).  One tick with a non-zero InputVector sets each axis to
\* clamp(position + input * speed, 0 + halfExtent, extent - halfExtent), the
\* axes independently and with no diagonal normalization: on the 1000 x 1000
\* window with speed 5, (500,500) with input (1,0) becomes (505,500),
\* (973,500) becomes (975,500), and input (1,1) adds 5 on each axis.
C10_TickStep ==
    [][/\ ~InputIsZero =>
            /\ characterX' = Clamp(RAdd(characterX, RMul(joystickX, Num(5))),
                                   Num(25), Num(width - 25))
            /\ characterY' = Clamp(RAdd(characterY, RMul(joystickY, Num(5))),
                                   Num(25), Num(height - 25))
       /\ (characterX = Num(500) /\ characterY = Num(500)
             /\ joystickX = One /\ joystickY = Zero) =>
            (characterX' = Num(505) /\ characterY' = Num(500))
       /\ (characterX = Num(973) /\ characterY = Num(500)
             /\ joystickX = One /\ joystickY = Zero) =>
            (characterX' = Num(975) /\ characterY' = Num(500))
       /\ (characterX = Num(500) /\ characterY = Num(500)
             /\ joystickX = One /\ joystickY = One) =>
            (characterX' = Num(505) /\ characterY' = Num(505))
      ]_vars

\* One tick from (973,500) with input (1,1): x clamped to 975, y advanced by 5.
C10_Witness ==
    /\ characterX = Num(975)
    /\ characterY = Num(505)
    /\ joystickX = One
    /\ joystickY = One

\* On every axis with a non-zero input the character stands at the bound the
\* input points at.
HeldAgainstBounds ==
    /\ RLess(Zero, joystickX) => characterX = Num(width - 25)
    /\ RLess(joystickX, Zero) => characterX = Num(25)
    /\ RLess(Zero, joystickY) => characterY = Num(height - 25)
    /\ RLess(joystickY, Zero) => characterY = Num(25)

\* C11 (SpecTickFair).  Continuous movement while held: with a non-zero
\* InputVector stored and no drag event arriving, every tick keeps the stored
\* vector and moves each axis by input * speed as long as that stays within
\* the bounds, and to the bound otherwise; so the character reaches the
\* bound its input points at, on every axis with a non-zero input, without
\* any further drag update.
C11_HeldKeepsMoving ==
    /\ [][/\ joystickX' = joystickX
          /\ joystickY' = joystickY
          /\ ~InputIsZero =>
                /\ characterX' = Clamp(RAdd(characterX, RMul(joystickX, Num(5))),
                                       Num(25), Num(width - 25))
                /\ characterY' = Clamp(RAdd(characterY, RMul(joystickY, Num(5))),
                                       Num(25), Num(height - 25))
                /\ (characterX' = characterX) =>
                      \/ joystickX = Zero
                      \/ characterX = Num(25)
                      \/ characterX = Num(width - 25)
                /\ (characterY' = characterY) =>
                      \/ joystickY = Zero
                      \/ characterY = Num(25)
                      \/ characterY = Num(height - 25)]_vars
    /\ <>[]HeldAgainstBounds

\* Three ticks from (500,500) under the one stored vector (-3/5, 4/5).
C11_Witness ==
    /\ joystickX = Frac(-3, 5)
    /\ joystickY = Frac(4, 5)
    /\ characterX = Num(491)
    /\ characterY = Num(512)
    /\ ~active
    /\ rnQueue = <<>>

\* The stick offset (tx, ty) is the one the displacement d alone gives: d
\* itself inside the circle of travel, and beyond it the point of the circle
\* along d, up to the rounding of cos and sin.
OffsetFromDisplacement(d, tx, ty) ==
    IF InsideTravel(d)
    THEN tx = Num(d[1]) /\ ty = Num(d[2])
    ELSE LET dx == Num(d[1])
             dy == Num(d[2])
             mag2 == RAdd(RSquare(tx), RSquare(ty))
             two == RMul(Num(2), Tolerance)
         IN  /\ RLeq(RSquare(RMul(TravelRadius, RAdd(One, RNeg(two)))), mag2)
             /\ RLeq(mag2, RSquare(RMul(TravelRadius, RAdd(One, two))))
             /\ RLess(Zero, RAdd(RMul(tx, dx), RMul(ty, dy)))
             /\ RLeq(RAbs(RAdd(RMul(tx, dy), RNeg(RMul(ty, dx)))),
                     RMul(RMul(Tolerance, TravelRadius), RAdd(RAbs(dx), RAbs(dy))))

\* C12 (SpecJoystick).  The gesture is Idle or Dragging.  A gesture start
\* takes Idle to Dragging and touches neither the stick offset nor the
\* reports; an update happens only in Dragging and stays there; a release
\* takes Dragging to Idle, forgets the displacement and sends the stick
\* offset to its target (0,0), which it reaches unless a new update comes
\* first; reports are scheduled from Dragging only; and the first update of a
\* drag sets the stick offset from its own displacement alone, whatever
\* offset the previous drag left behind.
C12_GestureStates ==
    [][/\ (~active /\ active') =>
             /\ event' = <<>>
             /\ UNCHANGED <<translateX, translateY, springing, rnQueue>>
       /\ (event' # <<>> /\ event' # event) => (active /\ active')
       /\ (active /\ ~active') =>
             /\ event' = <<>>
             /\ springing'
             /\ UNCHANGED <<translateX, translateY>>
       /\ (springing /\ ~springing' /\ event' = <<>>) =>
             (translateX' = Zero /\ translateY' = Zero)
       /\ Len(rnQueue') > Len(rnQueue) => active
       /\ (active /\ event = <<>> /\ event' # <<>>) =>
             OffsetFromDisplacement(event', translateX', translateY')
      ]_vars

\* The first update of a drag, made while the release report of the drag
\* before it is still pending and the listener still holds that drag's
\* vector: the stick offset is the new displacement.
C12_Witness ==
    /\ active
    /\ onMove
    /\ size = 150
    /\ event = <<27, 0>>
    /\ translateX = Num(27)
    /\ translateY = Zero
    /\ joystickX = RNeg(One)
    /\ rnQueue = << <<Zero, Zero>>, <<Frac(27, 45), Zero>> >>

\* C13 (Spec).  No accumulation of missed input: in every interleaving of
\* drag updates, releases, listener deliveries and ticks, a step changes each
\* axis of Position by at most speed (5), and a step that changes Position
\* sets it to the clamp of position + InputVector * speed for the InputVector
\* stored at that moment; vectors that were overwritten, or that are still
\* to be delivered, contribute nothing.
C13_NoAccumulation ==
    [][/\ RLeq(RAbs(RAdd(characterX', RNeg(characterX))), Num(5))
       /\ RLeq(RAbs(RAdd(characterY', RNeg(characterY))), Num(5))
       /\ (characterX' # characterX \/ characterY' # characterY) =>
             /\ characterX' = Clamp(RAdd(characterX, RMul(joystickX, Num(5))),
                                    Num(25), RAdd(Num(width), RNeg(Num(25))))
             /\ characterY' = Clamp(RAdd(characterY, RMul(joystickY, Num(5))),
                                    Num(25), RAdd(Num(height), RNeg(Num(25))))
      ]_vars

\* One tick has moved the character by the stored vector (1,0) while two
\* later, different drag updates wait to be delivered.
C13_Witness ==
    /\ size = 150
    /\ joystickX = One
    /\ joystickY = Zero
    /\ characterX = RAdd(Frac(width, 2), Num(5))
    /\ characterY = Frac(height, 2)
    /\ Len(rnQueue) = 2
    /\ rnQueue[1] # rnQueue[2]
    /\ rnQueue[2] # <<Zero, Zero>>
    /\ active

\* C14 (SpecFair).  Eventual stop after release: scheduled listener calls are
\* delivered oldest first, one per delivery; while the gesture is Idle the
\* newest vector reported is the release's (0,0), so no update's vector is
\* delivered after it; and after a release, unless a new drag starts, the
\* calls are eventually all delivered with InputVector (0,0), from when on
\* no step changes Position.
C14_EventualStop ==
    /\ [][/\ Len(rnQueue') < Len(rnQueue) =>
                /\ <<joystickX', joystickY'>> = Head(rnQueue)
                /\ rnQueue' = Tail(rnQueue)
          /\ (<<joystickX', joystickY'>> # <<joystickX, joystickY>>) =>
                (rnQueue # <<>> /\ <<joystickX', joystickY'>> = rnQueue[1])
          /\ (~active' /\ onMove) => LastReported' = <<Zero, Zero>>
          /\ (~active /\ rnQueue = <<>> /\ ~active') =>
                (characterX' = characterX /\ characterY' = characterY)
         ]_vars
    /\ [](~active => <>(active \/ (rnQueue = <<>> /\ InputIsZero)))

\* After a release the last update's vector and the release's (0,0) are both
\* still to be delivered, in that order, and the listener holds an older
\* vector.
C14_Witness ==
    /\ ~active
    /\ Len(rnQueue) = 2
    /\ rnQueue[1] # <<Zero, Zero>>
    /\ rnQueue[2] = <<Zero, Zero>>
    /\ ~InputIsZero
    /\ <<joystickX, joystickY>> # rnQueue[1]
    /\ characterX # Frac(width, 2)

\* Position is within [halfExtent, width - halfExtent] x
\* [halfExtent, height - halfExtent].
PositionInBounds ==
    /\ RLeq(Num(25), characterX)
    /\ RLeq(characterX, RAdd(Num(width), RNeg(Num(25))))
    /\ RLeq(Num(25), characterY)
    /\ RLeq(characterY, RAdd(Num(height), RNeg(Num(25))))

\* C15 (SpecAnyConfig).  Axis independence of the tick: from a position
\* within the bounds, a step taken while exactly one component of
\* InputVector is zero leaves the coordinate of that axis as it was, although
\* the tick stores both coordinates.
C15_ZeroAxisUnchanged ==
    [][/\ (PositionInBounds /\ joystickY = Zero /\ joystickX # Zero) =>
             characterY' = characterY
       /\ (PositionInBounds /\ joystickX = Zero /\ joystickY # Zero) =>
             characterX' = characterX
      ]_vars

\* One tick with input (3/5, 0) from the centre of the 60 x 56 window: x has
\* advanced by 3 and y is where it was.
C15_Witness ==
    /\ width = 60
    /\ height = 56
    /\ joystickX = Frac(3, 5)
    /\ joystickY = Zero
    /\ characterX = Num(33)
    /\ characterY = Num(28)
    /\ PositionInBounds

====
